---------------------------- MODULE Spec2Model ----------------------------
(***************************************************************************)
(* Chunk execution coordination of the R Markdown notebook session module  *)
(* (SessionRmdNotebook.cpp): the process-wide active console, the single   *)
(* chunk execution context, the set_chunk_console and refresh_chunk_output *)
(* RPC handlers, the deferred replay of cached chunk output, and the two   *)
(* signal handlers onActiveConsoleChanged and onChunkExecCompleted.        *)
(***************************************************************************)
EXTENDS Integers, Sequences, FiniteSets, TLC

(***************************************************************************)
(* Bounds of the model.                                                    *)
(***************************************************************************)
MaxContexts == 2      \* ChunkExecContext objects ever constructed
MaxChunkDefs == 2     \* chunk ids the store lists for one document

(***************************************************************************)
(* Program constants.                                                      *)
(***************************************************************************)
kFinishedReplay == 0
kFinishedInteractive == 1
kExecModeSingle == 0
kExecModeBatch == 1

(***************************************************************************)
(* Input domains.                                                          *)
(***************************************************************************)
Docs == {"d1", "d2"}
Chunks == {"c1", "c2"}
Consoles == Chunks \cup {""}          \* "" is the session's main console
Requests == {"r1", "r2"}
Texts == {"t1", "t2"}
ExecModes == {kExecModeSingle, kExecModeBatch}

\* notebookCtxId(): the context id of this user and session
notebookCtxId == "own"
NbCtxIds == {"", "own", "other"}

Success == "Success"
NoOptions == [type |-> "none", eval |-> "absent"]

\* what .rs.evaluateChunkOptions followed by jsonValueFromList can produce:
\* a failure of either call, a JSON object (whose "eval" member is a true or
\* false boolean, is absent, or is not a boolean), or a JSON non-object
EvalOutcomes ==
  {[error |-> e, json |-> NoOptions] : e \in {"EvalError", "JsonError"}}
    \cup {[error |-> Success, json |-> [type |-> "object", eval |-> v]] :
            v \in {"true", "false", "absent", "unreadable"}}
    \cup {[error |-> Success, json |-> [type |-> "other", eval |-> "absent"]]}

\* json::readObject(obj, "eval", &eval): fails when the member is missing or
\* is not a boolean, and then leaves eval at its initial value true
readObjectEval(json) ==
  IF json.eval \in {"true", "false"}
    THEN [error |-> FALSE, eval |-> (json.eval = "true")]
    ELSE [error |-> TRUE, eval |-> TRUE]

RECURSIVE SeqsUpTo(_, _)
SeqsUpTo(S, n) ==
  IF n = 0 THEN {<<>>}
  ELSE LET shorter == SeqsUpTo(S, n - 1)
       IN shorter \cup {Append(s, x) : s \in {t \in shorter : Len(t) = n - 1}, x \in S}

\* what getChunkDefs can produce: a failure, a value that is no JSON array,
\* or an array of chunk definitions (modelled by their chunk ids)
StoreOutcomes ==
  {[error |-> TRUE, type |-> "none", defs |-> <<>>],
   [error |-> FALSE, type |-> "other", defs |-> <<>>]}
    \cup {[error |-> FALSE, type |-> "array", defs |-> s] :
            s \in SeqsUpTo({[chunk_id |-> c] : c \in Chunks}, MaxChunkDefs)}

\* extractChunkIds: the chunk id of every chunk definition, in order
extractChunkIds(chunkOutputs) ==
  [i \in 1..Len(chunkOutputs) |-> chunkOutputs[i].chunk_id]

VARIABLES
  s_activeConsole,   \* the currently active console id
  s_execContext,     \* the execution context slot: 0 (null) or an index of heap
  heap,              \* every ChunkExecContext ever constructed
  cache,             \* the (docId, chunkId) pairs that have cached output
  clientEvents,      \* the client event queue: what the handler that ran
                     \* last has enqueued (the client takes its events
                     \* between two handlers)
  consoleInput,      \* what the handler that ran last has forwarded to the
                     \* execution engine
  rpc,               \* the RPC in flight: its request, response and phase
  lastCall           \* the handler that ran last, with its arguments

vars == <<s_activeConsole, s_execContext, heap, cache, clientEvents,
          consoleInput, rpc, lastCall>>

(***************************************************************************)
(* ChunkExecContext (NotebookExec.hpp).                                    *)
(***************************************************************************)
\* connects counts the context's transitions from Disconnected to Connected
NewChunkExecContext(docId, chunkId) ==
  [docId |-> docId, chunkId |-> chunkId, connected |-> FALSE, alive |-> TRUE,
   connects |-> 0]

connect(ctx) ==
  [ctx EXCEPT !.connected = TRUE,
              !.connects = IF ctx.connected THEN @ ELSE @ + 1]

disconnect(ctx) == [ctx EXCEPT !.connected = FALSE]

\* boost::shared_ptr::reset() on the only owner destroys the object: what is
\* left of it is whether it was still connected when it was destroyed
destroy(ctx) ==
  [docId |-> "", chunkId |-> "", connected |-> ctx.connected, alive |-> FALSE,
   connects |-> 0]

\* ChunkExecContext::onConsoleInput: forwards only while connected
onConsoleInput(id, ctx, text) ==
  IF ctx.connected THEN <<[ctx |-> id, text |-> text]>> ELSE <<>>

State(ctx) ==
  IF ~ctx.alive THEN "Terminated"
  ELSE IF ctx.connected THEN "Connected" ELSE "Disconnected"

(***************************************************************************)
(* Client events.                                                          *)
(***************************************************************************)
ChunkOutputFinished(docId, requestId, chunkId, type) ==
  [event |-> "ChunkOutputFinished", doc_id |-> docId, request_id |-> requestId,
   chunk_id |-> chunkId, type |-> type, ctx_id |-> ""]

\* enqueueChunkOutput: the cached output of one chunk, tagged with the request
ChunkOutput(docId, chunkId, nbCtxId, requestId) ==
  [event |-> "ChunkOutput", doc_id |-> docId, request_id |-> requestId,
   chunk_id |-> chunkId, type |-> -1, ctx_id |-> nbCtxId]

Idle == [phase |-> "idle", method |-> "", docId |-> "", chunkId |-> "",
         requestId |-> "", nbCtxId |-> "", execMode |-> 0, input |-> "",
         evaluated |-> NoOptions, error |-> Success, result |-> NoOptions,
         afterResponse |-> <<>>]

NoContext == [docId |-> "", chunkId |-> "", connected |-> FALSE, alive |-> FALSE,
              connects |-> 0]

\* the context the slot holds (NoContext when the slot is null)
Current == IF s_execContext = 0 THEN NoContext ELSE heap[s_execContext]

NoCall == [op |-> "", docId |-> "", chunkId |-> "", text |-> "", requestId |-> "",
           input |-> "", before |-> NoContext, activeBefore |-> ""]

\* a handler invocation: its arguments, and the slot's context and the active
\* console it found
Call(op, docId, chunkId, text, requestId, input) ==
  [op |-> op, docId |-> docId, chunkId |-> chunkId, text |-> text,
   requestId |-> requestId, input |-> input, before |-> Current,
   activeBefore |-> s_activeConsole]

\* the client event queue once the client has taken its events
Taken == <<>>

\* Requests whose parameters readParams rejects are modelled with empty
\* arguments: the handler returns before it uses any of them.
Init ==
  /\ s_activeConsole = ""
  /\ s_execContext = 0
  /\ heap = <<>>
  /\ cache = {<<"d1", "c1">>, <<"d2", "c2">>}
  /\ clientEvents = <<>>
  /\ consoleInput = <<>>
  /\ rpc = Idle
  /\ lastCall = NoCall

(***************************************************************************)
(* emitOutputFinished                                                      *)
(***************************************************************************)
\* a mutant of emitOutputFinished: the chunk id is also put where the
\* request id goes
emitOutputFinished_tagsRequest(queue, docId, chunkId) ==
  Append(queue, ChunkOutputFinished(docId, chunkId, chunkId,
                                    kFinishedInteractive))

emitOutputFinished(queue, docId, chunkId) ==
  Append(queue, ChunkOutputFinished(docId, "", chunkId, kFinishedInteractive))

(***************************************************************************)
(* onActiveConsoleChanged                                                  *)
(***************************************************************************)
\* mutants of focusChange: a connected context is connected again; a
\* disconnected context is destroyed when another console gets the focus; a
\* disconnected context is connected whatever console gets the focus; a
\* disconnected context is not connected when its console gets the focus
focusChange_reconnects(consoleId, ctx) ==
  IF consoleId = ctx.chunkId
    THEN "connect"
    ELSE IF ctx.connected THEN "teardown" ELSE "none"

focusChange_tearsDownDisconnected(consoleId, ctx) ==
  IF consoleId = ctx.chunkId
    THEN IF ctx.connected THEN "none" ELSE "connect"
    ELSE "teardown"

focusChange_connectsOnAnyConsole(consoleId, ctx) ==
  IF ctx.connected
    THEN IF consoleId = ctx.chunkId THEN "none" ELSE "teardown"
    ELSE "connect"

focusChange_neverConnects(consoleId, ctx) ==
  IF consoleId = ctx.chunkId
    THEN "none"
    ELSE IF ctx.connected THEN "teardown" ELSE "none"

\* a mutant of focusChange: a connected context survives losing the focus
focusChange_keepsContext(consoleId, ctx) ==
  IF consoleId = ctx.chunkId
    THEN IF ctx.connected THEN "none" ELSE "connect"
    ELSE "none"

\* what a console change does to the slot's context
focusChange(consoleId, ctx) ==
  IF consoleId = ctx.chunkId
    THEN IF ctx.connected THEN "none" ELSE "connect"
    ELSE IF ctx.connected THEN "teardown" ELSE "none"

\* a mutant of activeConsoleAfter: the handler returns before the assignment
\* when there is no execution context
activeConsoleAfter_needsContext(consoleId) ==
  IF s_execContext = 0 THEN s_activeConsole ELSE consoleId

\* s_activeConsole = consoleId, the handler's first statement
activeConsoleAfter(consoleId) == consoleId

\* a mutant of focusTeardown: the context is disconnected but not destroyed
focusTeardown_keepsObject(h) ==
  [h EXCEPT ![s_execContext] = disconnect(@)]

\* s_execContext->disconnect(); s_execContext.reset();
focusTeardown(h) ==
  [h EXCEPT ![s_execContext] = destroy(disconnect(@))]

onActiveConsoleChanged(consoleId, text) ==
  /\ rpc.phase = "idle"
  /\ s_activeConsole' = activeConsoleAfter(consoleId)
  /\ lastCall' = Call("onActiveConsoleChanged", "", consoleId, text, "", "")
  /\ IF s_execContext = 0
       THEN /\ consoleInput' = <<>>
            /\ UNCHANGED <<s_execContext, heap>>
       ELSE LET ctx == heap[s_execContext]
                change == focusChange(consoleId, ctx)
            IN
            CASE change = "connect" ->
                   /\ heap' = [heap EXCEPT ![s_execContext] = connect(ctx)]
                   /\ consoleInput' =
                        onConsoleInput(s_execContext, connect(ctx), text)
                   /\ UNCHANGED s_execContext
              [] change = "teardown" ->
                   /\ heap' = focusTeardown(heap)
                   /\ s_execContext' = 0
                   /\ consoleInput' = <<>>
              [] OTHER ->
                   /\ consoleInput' = <<>>
                   /\ UNCHANGED <<s_execContext, heap>>
  /\ clientEvents' = Taken
  /\ UNCHANGED <<cache, rpc>>

(***************************************************************************)
(* onChunkExecCompleted                                                    *)
(***************************************************************************)
\* a mutant of belongsToCurrent: the document is not compared
belongsToCurrent_chunkOnly(docId, chunkId) ==
  /\ s_execContext # 0
  /\ heap[s_execContext].chunkId = chunkId

\* this event belonged to the current execution context
belongsToCurrent(docId, chunkId) ==
  /\ s_execContext # 0
  /\ heap[s_execContext].docId = docId
  /\ heap[s_execContext].chunkId = chunkId

onChunkExecCompleted(docId, chunkId, nbCtxId) ==
  /\ rpc.phase = "idle"
  /\ clientEvents' = emitOutputFinished(Taken, docId, chunkId)
  /\ lastCall' = Call("onChunkExecCompleted", docId, chunkId, "", "", "")
  /\ IF belongsToCurrent(docId, chunkId)
       THEN /\ heap' = [heap EXCEPT ![s_execContext] = destroy(@)]
            /\ s_execContext' = 0
       ELSE UNCHANGED <<s_execContext, heap>>
  /\ consoleInput' = <<>>
  /\ UNCHANGED <<s_activeConsole, cache, rpc>>

(***************************************************************************)
(* setChunkConsole                                                         *)
(***************************************************************************)
\* a mutant of skipsEvaluation: the eval flag is tested the wrong way round
skipsEvaluation_whenEvalTrue(execMode, jsonOptions) ==
  /\ execMode = kExecModeBatch
  /\ jsonOptions.type = "object"
  /\ ~readObjectEval(jsonOptions).error
  /\ readObjectEval(jsonOptions).eval

\* batch mode and the options say not to evaluate the chunk
skipsEvaluation(execMode, jsonOptions) ==
  /\ execMode = kExecModeBatch
  /\ jsonOptions.type = "object"
  /\ ~readObjectEval(jsonOptions).error
  /\ ~readObjectEval(jsonOptions).eval

\* cleanChunkOutput(docId, chunkId, true)
cleanChunkOutput(docId, chunkId) == cache \ {<<docId, chunkId>>}

\* a mutant of cleanUpOldContext: the old context is not disconnected
cleanUpOldContext_keepsConnection(h) == h

\* clean up the old execution context if we still have one
cleanUpOldContext(h) ==
  IF s_execContext # 0
    THEN [h EXCEPT ![s_execContext] = disconnect(@)]
    ELSE h

\* mutants of createExecContext: the new context is connected whatever the
\* active console is, or is never connected
createExecContext_alwaysConnects(h, docId, chunkId) ==
  LET released == IF s_execContext # 0
                    THEN [h EXCEPT ![s_execContext] = destroy(@)]
                    ELSE h
  IN Append(released, connect(NewChunkExecContext(docId, chunkId)))

createExecContext_neverConnects(h, docId, chunkId) ==
  LET released == IF s_execContext # 0
                    THEN [h EXCEPT ![s_execContext] = destroy(@)]
                    ELSE h
  IN Append(released, NewChunkExecContext(docId, chunkId))

\* s_execContext.reset(new ChunkExecContext(...)): the slot's previous
\* context loses its only owner, the new one is connected immediately when
\* its chunk is the active console
createExecContext(h, docId, chunkId) ==
  LET released == IF s_execContext # 0
                    THEN [h EXCEPT ![s_execContext] = destroy(@)]
                    ELSE h
      created == NewChunkExecContext(docId, chunkId)
  IN Append(released,
            IF s_activeConsole = chunkId THEN connect(created) ELSE created)

\* a mutant of setChunkConsoleError: the evaluator's error is not returned
setChunkConsoleError_ignoresEvaluator(paramsOk, ev) ==
  IF ~paramsOk THEN "ParamError" ELSE Success

\* the error the handler returns before it touches any state: from
\* readParams, from .rs.evaluateChunkOptions or from jsonValueFromList
setChunkConsoleError(paramsOk, ev) ==
  IF ~paramsOk THEN "ParamError" ELSE ev.error

setChunkConsole(docId, chunkId, execMode, paramsOk, ev) ==
  LET request == [Idle EXCEPT !.phase = "handled",
                              !.method = "set_chunk_console",
                              !.docId = docId, !.chunkId = chunkId,
                              !.execMode = execMode,
                              !.input = IF ~paramsOk THEN "malformed"
                                        ELSE IF ev.error # Success THEN ev.error
                                        ELSE "evaluated",
                              !.evaluated = IF paramsOk THEN ev.json
                                            ELSE NoOptions]
      error == setChunkConsoleError(paramsOk, ev)
  IN
  /\ rpc.phase = "idle"
  /\ lastCall' = Call("setChunkConsole", docId, chunkId, "", "", request.input)
  /\ IF error # Success
       THEN /\ rpc' = [request EXCEPT !.error = error]
            /\ UNCHANGED <<s_execContext, heap, cache>>
       ELSE /\ rpc' = [request EXCEPT !.result = ev.json]
            /\ IF skipsEvaluation(execMode, ev.json)
                 THEN UNCHANGED <<s_execContext, heap, cache>>
                 ELSE /\ Len(heap) < MaxContexts
                      /\ cache' = cleanChunkOutput(docId, chunkId)
                      /\ heap' = createExecContext(cleanUpOldContext(heap),
                                                   docId, chunkId)
                      /\ s_execContext' = Len(heap) + 1
  /\ clientEvents' = Taken
  /\ consoleInput' = <<>>
  /\ UNCHANGED s_activeConsole

(***************************************************************************)
(* refreshChunkOutput and replayChunkOutputs                               *)
(***************************************************************************)
RECURSIVE enqueueAll_reversed(_, _, _, _)
\* a mutant of enqueueAll: the chunks are played back last to first
enqueueAll_reversed(queue, docId, requestId, chunkIds) ==
  IF chunkIds = <<>> THEN queue
  ELSE Append(enqueueAll_reversed(queue, docId, requestId, Tail(chunkIds)),
              ChunkOutput(docId, Head(chunkIds), notebookCtxId, requestId))

RECURSIVE enqueueAll(_, _, _, _)
\* the BOOST_FOREACH of replayChunkOutputs
enqueueAll(queue, docId, requestId, chunkIds) ==
  IF chunkIds = <<>> THEN queue
  ELSE enqueueAll(Append(queue, ChunkOutput(docId, Head(chunkIds),
                                            notebookCtxId, requestId)),
                  docId, requestId, Tail(chunkIds))

replayChunkOutputs(queue, docId, requestId, chunkOutputs) ==
  Append(enqueueAll(queue, docId, requestId, extractChunkIds(chunkOutputs)),
         ChunkOutputFinished(docId, requestId, "", kFinishedReplay))

\* use our own context ID if none supplied
effectiveCtxId(nbCtxId) == IF nbCtxId = "" THEN notebookCtxId ELSE nbCtxId

\* mutants of schedulesReplay: an empty list is not replayed; a failed
\* store query is replayed
schedulesReplay_unlessEmpty(store) ==
  ~store.error /\ store.type = "array" /\ store.defs # <<>>

schedulesReplay_onError(store) == store.error \/ store.type = "array"

\* schedule the work to play back the chunks
schedulesReplay(store) == ~store.error /\ store.type = "array"

\* a mutant of handlerEnqueues: the handler calls replayChunkOutputs itself
handlerEnqueues_replaysInline(docId, requestId, store) ==
  IF schedulesReplay(store)
    THEN replayChunkOutputs(Taken, docId, requestId, store.defs)
    ELSE Taken

\* what the handler itself enqueues: nothing, replayChunkOutputs is only
\* bound into the function given to setAfterResponse
handlerEnqueues(docId, requestId, store) == Taken

\* a mutant of refreshResult: the store's error is returned
refreshResult_returnsStoreError(store) ==
  IF store.error THEN "StoreError" ELSE Success

\* what the handler returns once its parameters are read
refreshResult(store) == Success

refreshChunkOutput(docId, nbCtxId, requestId, paramsOk, store) ==
  LET request == [Idle EXCEPT !.phase = "handled",
                              !.method = "refresh_chunk_output",
                              !.docId = docId, !.requestId = requestId]
  IN
  /\ rpc.phase = "idle"
  /\ lastCall' = Call("refreshChunkOutput", docId, "", "", requestId, "")
  /\ IF ~paramsOk
       THEN rpc' = [request EXCEPT !.error = "ParamError", !.input = "malformed"]
       ELSE rpc' = [request EXCEPT
                      !.nbCtxId = effectiveCtxId(nbCtxId),
                      !.input = IF store.error THEN "StoreError" ELSE store.type,
                      !.error = refreshResult(store),
                      !.afterResponse =
                         IF schedulesReplay(store)
                           THEN <<[docId |-> docId, requestId |-> requestId,
                                   chunkOutputs |-> store.defs]>>
                           ELSE <<>>]
  /\ clientEvents' = IF paramsOk THEN handlerEnqueues(docId, requestId, store)
                     ELSE Taken
  /\ consoleInput' = <<>>
  /\ UNCHANGED <<s_activeConsole, s_execContext, heap, cache>>

(***************************************************************************)
(* The RPC framework: the response is sent to the client, and the function *)
(* given to setAfterResponse runs after it.                                *)
(***************************************************************************)
sendResponse ==
  /\ rpc.phase = "handled"
  /\ rpc' = [rpc EXCEPT !.phase = "responded"]
  /\ lastCall' = Call("sendResponse", "", "", "", "", rpc.input)
  /\ clientEvents' = Taken
  /\ consoleInput' = <<>>
  /\ UNCHANGED <<s_activeConsole, s_execContext, heap, cache>>

afterResponse ==
  /\ rpc.phase = "responded"
  /\ rpc' = Idle
  /\ lastCall' = Call("afterResponse", rpc.docId, rpc.chunkId, "", rpc.requestId,
                       rpc.input)
  /\ IF rpc.afterResponse = <<>>
       THEN clientEvents' = Taken
       ELSE LET task == rpc.afterResponse[1] IN
            clientEvents' = replayChunkOutputs(Taken, task.docId,
                                               task.requestId, task.chunkOutputs)
  /\ consoleInput' = <<>>
  /\ UNCHANGED <<s_activeConsole, s_execContext, heap, cache>>

Next ==
  \/ \E consoleId \in Consoles, text \in Texts :
       onActiveConsoleChanged(consoleId, text)
  \/ \E docId \in Docs, chunkId \in Chunks :
       onChunkExecCompleted(docId, chunkId, notebookCtxId)
  \/ \E docId \in Docs, chunkId \in Chunks, execMode \in ExecModes,
        ev \in EvalOutcomes :
       setChunkConsole(docId, chunkId, execMode, TRUE, ev)
  \/ \E ev \in EvalOutcomes :
       setChunkConsole("", "", kExecModeSingle, FALSE, ev)
  \/ \E docId \in Docs, nbCtxId \in NbCtxIds, requestId \in Requests,
        store \in StoreOutcomes :
       refreshChunkOutput(docId, nbCtxId, requestId, TRUE, store)
  \/ \E store \in StoreOutcomes :
       refreshChunkOutput("", "", "", FALSE, store)
  \/ sendResponse
  \/ afterResponse

Spec == Init /\ [][Next]_vars

\* the session's main loop always sends the response of a handled request
\* and then runs its after-response function
FairSpec == Spec /\ WF_vars(sendResponse) /\ WF_vars(afterResponse)

(***************************************************************************)
(* Properties.                                                             *)
(***************************************************************************)
Connected == {i \in 1..Len(heap) : State(heap[i]) = "Connected"}

AtMostOneConnected == Cardinality(Connected) <= 1

\* a step that installs a new context over an old one leaves the old one
\* disconnected
ReplacedIsDisconnected ==
  (s_execContext # 0 /\ s_execContext' # 0 /\ s_execContext' # s_execContext)
    => /\ State(heap'[s_execContext]) = "Terminated"
       /\ ~heap'[s_execContext].connected

\* C1: single writer. Of all the execution contexts ever created at most one
\* is Connected in any state, and when set_chunk_console replaces a context
\* the old one has been disconnected when the new one is installed.
C1_SingleWriter == []AtMostOneConnected /\ [][ReplacedIsDisconnected]_vars

\* set_chunk_console has replaced a Connected context by a new Connected one
C1_Witness ==
  /\ lastCall.op = "setChunkConsole"
  /\ lastCall.before.alive /\ lastCall.before.connected
  /\ s_execContext = Len(heap) /\ s_execContext > 1
  /\ State(Current) = "Connected"

\* C2: whenever the live execution context is Connected, its chunkId is the
\* active console id.
C2_ConnectedIsActive ==
  (s_execContext # 0 /\ State(Current) = "Connected")
    => Current.chunkId = s_activeConsole

C2_Witness ==
  /\ s_execContext # 0
  /\ State(Current) = "Connected"
  /\ lastCall.op = "onActiveConsoleChanged"
  /\ lastCall.before.alive /\ ~lastCall.before.connected

FocusSwitchTeardown ==
  (/\ lastCall'.op = "onActiveConsoleChanged"
   /\ s_execContext # 0
   /\ State(Current) = "Connected"
   /\ lastCall'.chunkId # Current.chunkId)
    => /\ s_execContext' = 0
       /\ State(heap'[s_execContext]) = "Terminated"
       /\ ~heap'[s_execContext].connected
       /\ Connected' = {}
       /\ s_activeConsole' = lastCall'.chunkId

\* C3: focus-switch teardown. When a Connected context for chunk A is live
\* and onActiveConsoleChanged(B, text) runs with B # A, then afterwards the
\* slot is empty, the old context is disconnected and destroyed, and the
\* active console id is B.
C3_FocusSwitchTeardown == [][FocusSwitchTeardown]_vars

C3_Witness ==
  /\ lastCall.op = "onActiveConsoleChanged"
  /\ lastCall.before.alive /\ lastCall.before.connected
  /\ lastCall.before.chunkId # lastCall.chunkId
  /\ s_execContext = 0
  /\ s_activeConsole = lastCall.chunkId

Completed ==
  lastCall'.op = "onChunkExecCompleted"
    => /\ clientEvents' = <<ChunkOutputFinished(lastCall'.docId, "",
                                                lastCall'.chunkId,
                                                kFinishedInteractive)>>
       /\ IF /\ s_execContext # 0
             /\ Current.docId = lastCall'.docId
             /\ Current.chunkId = lastCall'.chunkId
            THEN /\ s_execContext' = 0
                 /\ State(heap'[s_execContext]) = "Terminated"
            ELSE /\ s_execContext' = s_execContext
                 /\ heap' = heap

\* C4: onChunkExecCompleted(docId, chunkId) enqueues exactly one Interactive
\* finished event tagged with (docId, chunkId); it destroys the live context
\* when both its docId and its chunkId equal the completed pair, and
\* otherwise leaves the slot and every context as they were.
C4_Completion == [][Completed]_vars

\* a completion for the live context's document but another chunk has left
\* the Connected context in place
C4_Witness ==
  /\ lastCall.op = "onChunkExecCompleted"
  /\ s_execContext # 0
  /\ State(Current) = "Connected"
  /\ Current.docId = lastCall.docId
  /\ Current.chunkId # lastCall.chunkId
  /\ Len(clientEvents) = 1

ReplayFinished(queue) ==
  {i \in 1..Len(queue) : /\ queue[i].event = "ChunkOutputFinished"
                         /\ queue[i].type = kFinishedReplay}

\* refresh_chunk_output has returned, the store having listed chunk ids
Listed(requestId) ==
  /\ rpc.phase = "handled"
  /\ rpc.method = "refresh_chunk_output"
  /\ rpc.input = "array"
  /\ rpc.requestId = requestId

\* the deferred replay has run and has enqueued one Replay finished event,
\* which carries the request id and an empty chunk id
ReplayedOnce(requestId) ==
  /\ lastCall.op = "afterResponse"
  /\ lastCall.requestId = requestId
  /\ Cardinality(ReplayFinished(clientEvents)) = 1
  /\ \A i \in ReplayFinished(clientEvents) :
       /\ clientEvents[i].request_id = requestId
       /\ clientEvents[i].chunk_id = ""

\* no other step enqueues a Replay finished event
OnlyListedIsReplayed ==
  Cardinality(ReplayFinished(clientEvents')) =
    IF /\ rpc.phase = "responded"
       /\ rpc.method = "refresh_chunk_output"
       /\ rpc.input = "array"
      THEN 1 ELSE 0

\* C5: the replay's terminal event always fires. Every refresh_chunk_output
\* call for which the store lists chunk ids (the empty list included) is
\* eventually followed by exactly one Replay finished event that carries the
\* call's requestId and an empty chunkId.
C5_ReplayAlwaysFires ==
  /\ \A requestId \in Requests : Listed(requestId) ~> ReplayedOnce(requestId)
  /\ [][OnlyListedIsReplayed]_vars

\* the replay of an empty list has enqueued its one finished event
C5_Witness ==
  /\ lastCall.op = "afterResponse"
  /\ lastCall.input = "array"
  /\ Len(clientEvents) = 1
  /\ clientEvents[1].type = kFinishedReplay
  /\ clientEvents[1].request_id = lastCall.requestId

StoreQueryFailed ==
  /\ rpc.method = "refresh_chunk_output"
  /\ rpc.input = "StoreError"

\* C6 as stated: when the store query fails during refresh_chunk_output, the
\* RPC returns the store-query error to the caller.
C6_ReturnsStoreError == StoreQueryFailed => rpc.error = "StoreError"

\* C6, amended: when the store query fails during refresh_chunk_output, the
\* RPC reports success to the caller (the store's error is dropped), and no
\* replay is scheduled.
C6_StoreErrorIsDropped ==
  StoreQueryFailed => (rpc.error = Success /\ rpc.afterResponse = <<>>)

C6_Witness == StoreQueryFailed /\ rpc.phase = "handled"

FailedRefresh(r) ==
  /\ r.method = "refresh_chunk_output"
  /\ r.input \in {"malformed", "StoreError"}

NothingReplayed ==
  (FailedRefresh(rpc') \/ FailedRefresh(rpc))
    => /\ rpc'.afterResponse = <<>>
       /\ clientEvents' = <<>>
       /\ UNCHANGED <<s_execContext, heap, s_activeConsole, cache>>

\* C7: when the store query fails or the parameters are malformed, the
\* refresh_chunk_output handler schedules no replay, and neither it nor the
\* steps that end the request enqueue anything or change the execution
\* context slot, a context or the active console id.
C7_FailedRefreshIsInert == [][NothingReplayed]_vars

\* the request of a failed store query has ended; a context was live
C7_Witness ==
  /\ lastCall.op = "afterResponse"
  /\ lastCall.input = "StoreError"
  /\ rpc = Idle
  /\ clientEvents = <<>>
  /\ State(Current) = "Connected"

EvalFalse == [type |-> "object", eval |-> "false"]

BatchSkip ==
  (/\ lastCall'.op = "setChunkConsole"
   /\ rpc'.input = "evaluated"
   /\ rpc'.execMode = kExecModeBatch
   /\ rpc'.evaluated = EvalFalse)
    => /\ rpc'.error = Success
       /\ rpc'.result = rpc'.evaluated
       /\ UNCHANGED <<cache, s_execContext, heap, s_activeConsole>>

\* C8: set_chunk_console in batch mode whose evaluated options are an object
\* with eval false returns success with the evaluated options as its result,
\* and leaves the cached output, the execution context and the active console
\* id as they were.
C8_BatchSkip == [][BatchSkip]_vars

C8_Witness ==
  /\ lastCall.op = "setChunkConsole"
  /\ rpc.input = "evaluated"
  /\ rpc.execMode = kExecModeBatch
  /\ rpc.evaluated = EvalFalse
  /\ rpc.result = EvalFalse
  /\ State(Current) = "Connected"
  /\ <<rpc.docId, rpc.chunkId>> \in cache

FailedSetChunkConsole ==
  (/\ lastCall'.op = "setChunkConsole"
   /\ rpc'.input \in {"malformed", "EvalError", "JsonError"})
    => /\ rpc'.error = (IF rpc'.input = "malformed" THEN "ParamError"
                        ELSE rpc'.input)
       /\ rpc'.result = NoOptions
       /\ UNCHANGED <<cache, s_execContext, heap, s_activeConsole>>

\* C9: when set_chunk_console fails with a parameter error or an error of
\* the option evaluator (or of the conversion of its value to JSON), that
\* error is returned and no state changes: the cached output, the execution
\* context slot, every context and the active console id stay as they were.
C9_FailedSetChunkConsole == [][FailedSetChunkConsole]_vars

C9_Witness ==
  /\ lastCall.op = "setChunkConsole"
  /\ rpc.input = "EvalError"
  /\ rpc.error = "EvalError"
  /\ State(Current) = "Connected"
  /\ <<rpc.docId, rpc.chunkId>> \in cache

Executes ==
  (/\ lastCall'.op = "setChunkConsole"
   /\ rpc'.input = "evaluated"
   /\ ~(rpc'.execMode = kExecModeBatch /\ rpc'.evaluated = EvalFalse))
    => /\ cache' = cache \ {<<rpc'.docId, rpc'.chunkId>>}
       /\ s_execContext # 0 =>
            /\ State(heap'[s_execContext]) = "Terminated"
            /\ ~heap'[s_execContext].connected
       /\ \A i \in 1..Len(heap) : i # s_execContext => heap'[i] = heap[i]
       /\ Len(heap') = Len(heap) + 1
       /\ s_execContext' = Len(heap')
       /\ Current'.docId = rpc'.docId
       /\ Current'.chunkId = rpc'.chunkId
       /\ State(Current') = IF rpc'.chunkId = s_activeConsole
                              THEN "Connected" ELSE "Disconnected"

\* C10: whenever set_chunk_console has evaluated the options and is not in
\* the batch eval-false case, it clears the cached output of (docId,
\* chunkId), disconnects the existing context, installs a fresh context for
\* (docId, chunkId), and that context is Connected afterwards if chunkId is
\* the active console id of the call and Disconnected otherwise.
C10_Executes == [][Executes]_vars

\* batch mode, an eval member that is no boolean: the chunk is executed, on
\* the active console, in place of an older context
C10_Witness ==
  /\ lastCall.op = "setChunkConsole"
  /\ rpc.input = "evaluated"
  /\ rpc.execMode = kExecModeBatch
  /\ rpc.evaluated.eval = "unreadable"
  /\ lastCall.before.alive
  /\ Current.chunkId = rpc.chunkId
  /\ State(Current) = "Connected"
  /\ <<rpc.docId, rpc.chunkId>> \notin cache

\* the step is a notification for the console of the live context
NotifiesOwnConsole ==
  /\ lastCall'.op = "onActiveConsoleChanged"
  /\ s_execContext # 0
  /\ Current.chunkId = lastCall'.chunkId

\* the handler that ran just before was a notification for the same console
RepeatsNotification ==
  /\ lastCall.op = "onActiveConsoleChanged"
  /\ lastCall.chunkId = lastCall'.chunkId

\* the notification connects the context, its only connection so far, and
\* forwards its text once
ConnectsAndForwards ==
  /\ State(Current) = "Disconnected"
  /\ s_execContext' = s_execContext
  /\ State(heap'[s_execContext]) = "Connected"
  /\ heap'[s_execContext].connects = 1
  /\ consoleInput' = <<[ctx |-> s_execContext, text |-> lastCall'.text]>>
  /\ s_activeConsole' = lastCall'.chunkId

\* the notification changes nothing but the active console, which is the
\* notified console
OnlyActiveConsole ==
  /\ UNCHANGED <<s_execContext, heap, cache, rpc>>
  /\ State(Current) = "Connected"
  /\ Current.connects = 1
  /\ consoleInput' = <<>>
  /\ clientEvents' = <<>>
  /\ s_activeConsole' = lastCall'.chunkId

\* C11 as stated: of the notifications delivered in a row for the console of
\* the live context, the first one connects the context and forwards the text,
\* and every later one changes nothing but the active console
C11_FirstNotificationForwards ==
  [][NotifiesOwnConsole =>
       IF RepeatsNotification THEN OnlyActiveConsole
       ELSE ConnectsAndForwards]_vars

\* C11: when notifications for the console of the live context are delivered
\* in a row and the context is Disconnected before the first of them, the
\* first one makes the context's one transition to Connected and forwards its
\* text once, and every later one changes nothing but the active console,
\* which stays that console; when the context is already Connected before
\* the first of them, none of them connects it or forwards any text
C11_IdempotentConnect ==
  [][NotifiesOwnConsole =>
       IF RepeatsNotification \/ State(Current) = "Connected"
         THEN OnlyActiveConsole
         ELSE ConnectsAndForwards]_vars

\* a notification for the console that is already active has found the
\* context of that console Connected and has left it so, forwarding nothing
C11_Witness ==
  /\ lastCall.op = "onActiveConsoleChanged"
  /\ lastCall.activeBefore = lastCall.chunkId
  /\ lastCall.before.alive /\ lastCall.before.connected
  /\ lastCall.before.chunkId = lastCall.chunkId
  /\ s_execContext # 0
  /\ Current = lastCall.before
  /\ Current.connects = 1
  /\ consoleInput = <<>>

\* the events of a replay: the cached outputs and the Replay finished event
ReplayOutput(queue) ==
  {i \in 1..Len(queue) : \/ queue[i].event = "ChunkOutput"
                         \/ /\ queue[i].event = "ChunkOutputFinished"
                            /\ queue[i].type = kFinishedReplay}

\* the handler of refresh_chunk_output emits nothing, and a step that emits
\* replay events starts where the response of a refresh_chunk_output call
\* has been sent and tags them with that call's request id
ReplayAfterResponse ==
  /\ lastCall'.op = "refreshChunkOutput" => clientEvents' = <<>>
  /\ ReplayOutput(clientEvents') # {}
       => /\ rpc.phase = "responded"
          /\ rpc.method = "refresh_chunk_output"
          /\ lastCall'.op = "afterResponse"
          /\ \A i \in ReplayOutput(clientEvents') :
               clientEvents'[i].request_id = rpc.requestId

\* C12: for every refresh_chunk_output call the response is delivered before
\* any cached output or Replay finished event tagged with the call's request
\* id is produced, and the handler itself emits no output events
C12_ReplayAfterResponse == [][ReplayAfterResponse]_vars

\* a replay with cached output has run, after the response
C12_Witness ==
  /\ lastCall.op = "afterResponse"
  /\ lastCall.input = "array"
  /\ rpc.phase = "idle"
  /\ \E i \in ReplayOutput(clientEvents) :
       /\ clientEvents[i].event = "ChunkOutput"
       /\ clientEvents[i].request_id = lastCall.requestId

\* the replay of a request: one cached output per listed chunk id, in the
\* order of the list and tagged with the request id, then one Replay finished
\* event, the last event
ReplayInOrder ==
  (rpc.phase = "responded" /\ rpc.afterResponse # <<>>)
    => LET task == rpc.afterResponse[1]
           n == Len(task.chunkOutputs)
       IN
       /\ Len(clientEvents') = n + 1
       /\ \A i \in 1..n :
            /\ clientEvents'[i].event = "ChunkOutput"
            /\ clientEvents'[i].doc_id = task.docId
            /\ clientEvents'[i].chunk_id = task.chunkOutputs[i].chunk_id
            /\ clientEvents'[i].request_id = task.requestId
       /\ ReplayFinished(clientEvents') = {n + 1}
       /\ clientEvents'[n + 1].request_id = task.requestId

\* C13: replayChunkOutputs enqueues cached output once per chunk id in the
\* order the store returned, each tagged with the originating request id, and
\* the single Replay finished event comes after every chunk of the request
\* has been enqueued
C13_ReplayInOrder == [][ReplayInOrder]_vars

\* two different chunks have been replayed, then the finished event
C13_Witness ==
  /\ lastCall.op = "afterResponse"
  /\ Len(clientEvents) = 3
  /\ clientEvents[1].event = "ChunkOutput"
  /\ clientEvents[2].event = "ChunkOutput"
  /\ clientEvents[1].chunk_id # clientEvents[2].chunk_id
  /\ clientEvents[3].type = kFinishedReplay

\* the ChunkOutputFinished events the last handler emitted
Finished == {i \in 1..Len(clientEvents) :
               clientEvents[i].event = "ChunkOutputFinished"}

\* C14: every ChunkOutputFinished event is tagged one way only: a Replay
\* event has an empty chunk id and the request id of the refresh call, an
\* Interactive event has an empty request id and the id of the completed
\* chunk, and no event has both a request id and a chunk id
C14_ExclusiveTags ==
  \A i \in Finished :
    LET e == clientEvents[i] IN
    /\ e.type \in {kFinishedReplay, kFinishedInteractive}
    /\ e.type = kFinishedReplay
         => /\ e.chunk_id = ""
            /\ lastCall.op = "afterResponse"
            /\ e.request_id = lastCall.requestId
            /\ e.request_id \in Requests
    /\ e.type = kFinishedInteractive
         => /\ e.request_id = ""
            /\ lastCall.op = "onChunkExecCompleted"
            /\ e.chunk_id = lastCall.chunkId
            /\ e.chunk_id \in Chunks
    /\ ~(e.request_id # "" /\ e.chunk_id # "")

\* an Interactive finished event for a chunk that is not the context's
C14_Witness ==
  /\ lastCall.op = "onChunkExecCompleted"
  /\ Finished = {1}
  /\ clientEvents[1].type = kFinishedInteractive
  /\ clientEvents[1].chunk_id = lastCall.chunkId
  /\ clientEvents[1].request_id = ""
  /\ s_execContext = 0

\* a notification sets the active console to its console id, and no other
\* handler changes the active console
TracksNotification ==
  IF lastCall'.op = "onActiveConsoleChanged"
    THEN s_activeConsole' = lastCall'.chunkId
    ELSE s_activeConsole' = s_activeConsole

\* C15: the active console always is the console id of the most recent
\* OnActiveConsoleChanged notification, updated even when no context exists,
\* and set_chunk_console, refresh_chunk_output, the replay and OnCompleted
\* never change it
C15_TracksNotification == [][TracksNotification]_vars

\* a notification that found no context has changed the active console
C15_Witness ==
  /\ lastCall.op = "onActiveConsoleChanged"
  /\ ~lastCall.before.alive
  /\ s_execContext = 0
  /\ lastCall.activeBefore # lastCall.chunkId
  /\ s_activeConsole = lastCall.chunkId

\* the last handler was a notification for a console other than the chunk of
\* the context it found
NotifiedOtherConsole ==
  /\ lastCall.op = "onActiveConsoleChanged"
  /\ lastCall.before.alive
  /\ lastCall.chunkId # lastCall.before.chunkId

\* C16 as stated: after a notification for a console other than the live
\* context's chunk, no Disconnected context remains in the slot
C16_NoDisconnectedRemains ==
  NotifiedOtherConsole
    => ~(s_execContext # 0 /\ State(Current) = "Disconnected")

\* a notification for a console other than the live context's chunk destroys
\* a Connected context and leaves a Disconnected one where it is
TearsDownConnectedOnly ==
  (/\ lastCall'.op = "onActiveConsoleChanged"
   /\ s_execContext # 0
   /\ lastCall'.chunkId # Current.chunkId)
    => IF State(Current) = "Connected"
         THEN /\ s_execContext' = 0
              /\ State(heap'[s_execContext]) = "Terminated"
              /\ ~heap'[s_execContext].connected
         ELSE /\ UNCHANGED <<s_execContext, heap>>
              /\ State(heap'[s_execContext']) = "Disconnected"

\* C16: after a notification for a console other than the live context's
\* chunk, a context that was Connected has been disconnected and destroyed,
\* the slot being empty, while a context that was Disconnected, never having
\* been connected, remains in the slot, Disconnected
C16_TearsDownConnectedOnly == [][TearsDownConnectedOnly]_vars

\* a Disconnected context has outlived a notification for another console
C16_Witness ==
  /\ NotifiedOtherConsole
  /\ ~lastCall.before.connected
  /\ s_execContext # 0
  /\ Current = lastCall.before
  /\ State(Current) = "Disconnected"
  /\ Current.connects = 0

\* console input reaches the execution engine only in a notification for the
\* chunk of the context in the slot, which that notification has just
\* connected, and it is the notification's text, once
ForwardsThroughConnected ==
  consoleInput' # <<>>
    => /\ lastCall'.op = "onActiveConsoleChanged"
       /\ s_execContext # 0
       /\ s_execContext' = s_execContext
       /\ Current.chunkId = lastCall'.chunkId
       /\ State(Current) = "Disconnected"
       /\ State(heap'[s_execContext]) = "Connected"
       /\ consoleInput' = <<[ctx |-> s_execContext, text |-> lastCall'.text]>>

\* C17: console input is forwarded only through a context that is Connected
\* at that moment: every forwarding follows the connect() of the same context
\* in the same OnActiveConsoleChanged handler, and no text is forwarded when
\* no context exists, when the console is not the context's chunk, or by the
\* immediate connect of set_chunk_console
C17_ForwardsThroughConnected == [][ForwardsThroughConnected]_vars

\* a notification has forwarded its text through the context it connected
C17_Witness ==
  /\ lastCall.op = "onActiveConsoleChanged"
  /\ Len(consoleInput) = 1
  /\ consoleInput[1].ctx = s_execContext
  /\ consoleInput[1].text = lastCall.text
  /\ State(Current) = "Connected"
  /\ ~lastCall.before.connected

\* C18: between handler invocations a context whose chunk is the active
\* console is Connected: no Disconnected context has the active console as
\* its chunk
C18_ActiveIsConnected ==
  (s_execContext # 0 /\ Current.chunkId = s_activeConsole)
    => State(Current) = "Connected"

\* set_chunk_console has created a context for the active console where no
\* context was, and has connected it
C18_Witness ==
  /\ lastCall.op = "setChunkConsole"
  /\ ~lastCall.before.alive
  /\ s_execContext # 0
  /\ Current.chunkId = s_activeConsole
  /\ State(Current) = "Connected"

\* C19: every cached output of a replay is enqueued with the context id the
\* refresh_chunk_output call used to list the chunk ids, the supplied one or
\* the session's own when none was supplied
C19_ReplaysListedContext ==
  [][(rpc.phase = "responded" /\ rpc.method = "refresh_chunk_output")
       => \A i \in 1..Len(clientEvents') :
            clientEvents'[i].event = "ChunkOutput"
              => clientEvents'[i].ctx_id = rpc.nbCtxId]_vars

\* a context that stops being Connected is destroyed by the same handler, a
\* destroyed context stays as it is, and no context counts more than one
\* transition from Disconnected to Connected
ConnectsOnce ==
  \A i \in 1..Len(heap) :
    /\ (State(heap[i]) = "Connected" /\ State(heap'[i]) # "Connected")
         => /\ State(heap'[i]) = "Terminated"
            /\ s_execContext' # i
    /\ State(heap[i]) = "Terminated" => heap'[i] = heap[i]
    /\ heap[i].connects <= 1
    /\ heap'[i].connects <= 1

\* C20: each execution context makes at most one transition from
\* Disconnected to Connected in its lifetime: a context that is disconnected
\* after being Connected is destroyed or replaced within the same handler
\* invocation and is never connected again
C20_ConnectsOnce == [][ConnectsOnce]_vars

\* set_chunk_console has disconnected and replaced a context that had made
\* its one connection; the new context has made none
C20_Witness ==
  /\ lastCall.op = "setChunkConsole"
  /\ lastCall.before.connected
  /\ lastCall.before.connects = 1
  /\ s_execContext = 2
  /\ State(heap[1]) = "Terminated" /\ ~heap[1].connected
  /\ State(Current) = "Disconnected"
  /\ Current.connects = 0

=============================================================================
